---- MODULE Spec2Model ----
(***************************************************************************)
(* AQI map visualizer: the proxy's PM2.5 -> AQI derivation (pm25ToAqi),    *)
(* the severity classifiers of the client components (getAqiColor,         *)
(* getAqiLabel), the proxy's two AQI endpoints, the App (fetchData, the    *)
(* refresh interval, the countdown, the regions) and the station panel.    *)
(* The client's timers run on whole seconds: an answer or a click falls    *)
(* between two ticks.                                                      *)
(*                                                                         *)
(* JavaScript values are records [t, v]: t is the kind of the value and v  *)
(* its integer payload (0 when the kind has none).  A PM2.5 concentration  *)
(* is held in hundredths of a ug/m3 (12.1 ug/m3 is 1210), an AQI index in  *)
(* units.                                                                  *)
(***************************************************************************)
EXTENDS Integers, Sequences, FiniteSets

VARIABLES
    pm25Raw,    \* argument of the latest pm25ToAqi call
    derived,    \* what that call returned
    derivePc,   \* "idle" before the call, "returned" after it
    clsComponent,   \* the component that renders: "map" or "panel"
    clsAqi,     \* the aqi it renders (station.aqi, detail.aqi)
    clsColor,   \* getAqiColor(aqi) as rendered
    clsLabel,   \* getAqiLabel(aqi) as rendered
    clsPc,      \* "idle" before the render, "rendered" after it
    apiKey,     \* process.env.WAQI_API_KEY: "unset", "placeholder" or "valid"
    listPc,     \* GET /api/aqi: "idle", "fetching", "enriching", "responded"
    listMain,   \* what its map bounds call returned: [status, data]
    listCalls,  \* the upstream requests it has issued
    listSent,   \* the responses it has sent
    stations,   \* its per-station callbacks: [uid, wire, aqi, pending, feed]
    listRes,    \* its response: [status, error, body]
    detailPc,   \* GET /api/aqi/:stationId: "idle", "fetching", "responded"
    detailFeed, \* what its feed call returned: [status, aqi, pm25]
    detailCalls,    \* the upstream requests it has issued
    detailSent, \* the responses it has sent
    detailRes,  \* its response: [status, error, aqi, pm25]
    regionAware,    \* TRUE: the App that fetches by region; FALSE: the first App
    currentBounds,  \* App: the region whose bounds are fetched
    mapView,        \* App: what the map is centred on, a region or a station
    selectedStation,    \* App: the station of the detail panel, or null
    aqiData,        \* App: the stations of the latest successful response
    loading,        \* App: the loader flag
    error,          \* App: null or the message of the latest failure
    lastRefresh,    \* App: null or the Date of the latest success
    countdown,      \* App: the N of "Refresh in Ns"
    intervalLeft,   \* seconds until setInterval(fetchData, ...) fires next
    sinceArmed,     \* history: seconds since that interval was armed, modulo 60
    inflight,       \* fetches of /api/aqi not yet settled, counted by region
    detail,         \* StationPanel: null or the station detail shown
    panelLoading,   \* StationPanel: loading
    panelError,     \* StationPanel: error
    visible,        \* StationPanel: visible
    detailInflight, \* fetches of /api/aqi/:id not yet settled, counted by id
    showTimers,     \* pending setTimeout(() => setVisible(true), 30)
    closeFresh,     \* pending setTimeout(onClose, 300) of the current selection
    closeStale      \* pending setTimeout(onClose, 300) of an earlier selection

deriveVars == <<pm25Raw, derived, derivePc>>

clsVars == <<clsComponent, clsAqi, clsColor, clsLabel, clsPc>>

listVars == <<listPc, listMain, listCalls, listSent, stations, listRes>>

detailVars == <<detailPc, detailFeed, detailCalls, detailSent, detailRes>>

proxyVars == <<apiKey, listVars, detailVars>>

appVars == <<regionAware, currentBounds, mapView, selectedStation, aqiData,
             loading, error, lastRefresh, countdown, intervalLeft, sinceArmed,
             inflight>>

panelVars == <<detail, panelLoading, panelError, visible, detailInflight,
               showTimers, closeFresh, closeStale>>

clientVars == <<appVars, panelVars>>

vars == <<pm25Raw, derived, derivePc,
          clsComponent, clsAqi, clsColor, clsLabel, clsPc,
          apiKey, listPc, listMain, listCalls, listSent, stations, listRes,
          detailPc, detailFeed, detailCalls, detailSent, detailRes,
          regionAware, currentBounds, mapView, selectedStation, aqiData,
          loading, error, lastRefresh, countdown, intervalLeft, sinceArmed,
          inflight, detail, panelLoading, panelError, visible, detailInflight,
          showTimers, closeFresh, closeStale>>

----------------------------------------------------------------------------
(* JavaScript values *)

Undefined == [t |-> "undefined", v |-> 0]
Null == [t |-> "null", v |-> 0]
NaN == [t |-> "nan", v |-> 0]
Num(n) == [t |-> "number", v |-> n]
\* +Infinity (v = 1) and -Infinity (v = -1): JSON.parse("1e999") is Infinity
Infinity(sign) == [t |-> "infinity", v |-> sign]
\* a string holding the decimal numeral of n, such as "12.1"
NumStr(n) == [t |-> "numstr", v |-> n]
\* the empty (or all-blank) string
EmptyStr == [t |-> "emptystr", v |-> 0]
\* the string "-", which WAQI sends for a reading it does not have
Text == [t |-> "text", v |-> 0]
\* any other string that is no numeral, such as "n/a"
Word == [t |-> "text", v |-> 1]
Bool(b) == [t |-> "boolean", v |-> b]
\* a plain object {} and the empty array []
Object == [t |-> "object", v |-> 0]
EmptyArray == [t |-> "emptyarray", v |-> 0]

----------------------------------------------------------------------------
(* Bounds of the checked inputs *)

\* largest concentration of the dense grid, in tenths of a ug/m3
MaxConc == 5100
\* the dense grid starts at -MinNeg tenths of a ug/m3
MinNeg == 60
\* the classified indices run from -MinIdx to MaxIdx
MaxIdx == 520
MinIdx == 10
\* most stations in one answer of the map bounds API
MaxStations == 2
\* most fetches of /api/aqi in flight at once
MaxInFlight == 2
\* most fetches of /api/aqi/:id in flight at once
MaxDetailInFlight == 2
\* most timers of one kind pending at once in the station panel
MaxTimers == 2

\* the hundredths strictly between two consecutive concentration bands
GapConcs ==
    UNION {{b + k : k \in 1 .. 9} : b \in {1200, 3540, 5540, 15040, 25040}}

\* concentrations far above the top band
FarConcs == {60000, 100000}

\* every tenth of a ug/m3 of the range, every hundredth between two bands,
\* and the far concentrations
ConcGrid ==
    {10 * k : k \in (0 - MinNeg) .. MaxConc} \cup GapConcs \cup FarConcs

\* the numerals that arrive as strings
StrConcs == {-500, 0, 1200, 1210, 3540, 50040, 60000}

\* the JSON values a reading can hold
RawInputs ==
    {Num(c) : c \in ConcGrid}
        \cup {NumStr(c) : c \in StrConcs}
        \cup {Undefined, Null, Infinity(1), Infinity(-1), EmptyStr, Text,
              Word, Bool(0), Bool(1), Object, EmptyArray}

----------------------------------------------------------------------------
(* pm25ToAqi *)

\* Number(pm25Raw)
ToNumber(x) ==
    CASE x.t = "number" -> x
      [] x.t = "infinity" -> x
      [] x.t = "numstr" -> Num(x.v)
      [] x.t = "emptystr" -> Num(0)
      [] x.t = "boolean" -> Num(x.v * 100)
      [] x.t = "emptyarray" -> Num(0)
      [] x.t = "null" -> Num(0)
      [] OTHER -> NaN

\* the comparison written < instead of <=
LeStrict(pm25, k) ==
    IF pm25.t = "infinity" THEN pm25.v < 0 ELSE pm25.v < k

\* pm25 <= k for a number pm25 that is not NaN (k in hundredths)
Le(pm25, k) ==
    IF pm25.t = "infinity" THEN pm25.v < 0 ELSE pm25.v <= k

\* the chain without its final else: the top band taken for all that is left
BreakpointNoCap(pm25) ==
    IF Le(pm25, 1200)
    THEN [cap |-> FALSE, bpLo |-> 0, bpHi |-> 1200, iLo |-> 0, iHi |-> 50]
    ELSE IF Le(pm25, 3540)
    THEN [cap |-> FALSE, bpLo |-> 1210, bpHi |-> 3540, iLo |-> 51, iHi |-> 100]
    ELSE IF Le(pm25, 5540)
    THEN [cap |-> FALSE, bpLo |-> 3550, bpHi |-> 5540, iLo |-> 101, iHi |-> 150]
    ELSE IF Le(pm25, 15040)
    THEN [cap |-> FALSE, bpLo |-> 5550, bpHi |-> 15040, iLo |-> 151, iHi |-> 200]
    ELSE IF Le(pm25, 25040)
    THEN [cap |-> FALSE, bpLo |-> 15050, bpHi |-> 25040, iLo |-> 201, iHi |-> 300]
    ELSE [cap |-> FALSE, bpLo |-> 25050, bpHi |-> 50040, iLo |-> 301, iHi |-> 500]

\* the if-chain that picks [bpLo, bpHi, iLo, iHi]; cap marks the final else
Breakpoint(pm25) ==
    IF Le(pm25, 1200)
    THEN [cap |-> FALSE, bpLo |-> 0, bpHi |-> 1200, iLo |-> 0, iHi |-> 50]
    ELSE IF Le(pm25, 3540)
    THEN [cap |-> FALSE, bpLo |-> 1210, bpHi |-> 3540, iLo |-> 51, iHi |-> 100]
    ELSE IF Le(pm25, 5540)
    THEN [cap |-> FALSE, bpLo |-> 3550, bpHi |-> 5540, iLo |-> 101, iHi |-> 150]
    ELSE IF Le(pm25, 15040)
    THEN [cap |-> FALSE, bpLo |-> 5550, bpHi |-> 15040, iLo |-> 151, iHi |-> 200]
    ELSE IF Le(pm25, 25040)
    THEN [cap |-> FALSE, bpLo |-> 15050, bpHi |-> 25040, iLo |-> 201, iHi |-> 300]
    ELSE IF Le(pm25, 50040)
    THEN [cap |-> FALSE, bpLo |-> 25050, bpHi |-> 50040, iLo |-> 301, iHi |-> 500]
    ELSE [cap |-> TRUE, bpLo |-> 0, bpHi |-> 0, iLo |-> 0, iHi |-> 0]

\* The concentrations (in hundredths of a ug/m3, all negative, on the grid
\* of tenths down to -20.0) at which the exact
\* value of the interpolation is k + 1/2 while the IEEE double the code
\* computes, (50 / 12) * pm25 with 50 / 12 rounded up to 4.166666666666667,
\* lies just below it, so that Math.round gives k and not k + 1.  For every
\* other concentration of the grid the double rounds as the exact value does.
DoubleBelowHalf == {-1980, -1860, -1500, -1380, -1140, -540, -420, -180}

\* Math.floor in the place of Math.round
MathFloor(num, den) == num \div den

\* Math.round of the rational num / den (den > 0): the nearest integer, a
\* half rounded up (towards +Infinity)
MathRound(num, den) == (2 * num + den) \div (2 * den)

\* the interpolation without its "+ iLo"
InterpolateNoOffset(bp, c) ==
    MathRound((bp.iHi - bp.iLo) * (c - bp.bpLo), bp.bpHi - bp.bpLo)

\* the interpolation measured from the wrong end of the band
InterpolateInverted(bp, c) ==
    bp.iLo + MathRound((bp.iHi - bp.iLo) * (bp.bpHi - c), bp.bpHi - bp.bpLo)

\* Math.round(((iHi - iLo) / (bpHi - bpLo)) * (pm25 - bpLo) + iLo)
Interpolate(bp, c) ==
    bp.iLo + MathRound((bp.iHi - bp.iLo) * (c - bp.bpLo), bp.bpHi - bp.bpLo)
        - (IF c \in DoubleBelowHalf THEN 1 ELSE 0)

\* pm25ToAqi without its Number.isNaN test: Math.round(NaN) is NaN
pm25ToAqiNoNaNTest(raw) ==
    IF raw = Null \/ raw = Undefined THEN Null
    ELSE LET pm25 == ToNumber(raw)
             bp == Breakpoint(pm25)
         IN  IF pm25.t = "nan" THEN NaN
             ELSE IF bp.cap THEN Num(500)
             ELSE IF pm25.t = "infinity" THEN pm25
             ELSE Num(Interpolate(bp, pm25.v))

pm25ToAqi(raw) ==
    IF raw = Null \/ raw = Undefined THEN Null
    ELSE LET pm25 == ToNumber(raw)
             bp == Breakpoint(pm25)
         IN  IF pm25.t = "nan" THEN Null
             ELSE IF bp.cap THEN Num(500)
             ELSE IF pm25.t = "infinity" THEN pm25
             ELSE Num(Interpolate(bp, pm25.v))

----------------------------------------------------------------------------
(* The derivation called on a reading *)

\* the variables of the derivation before any call
DeriveIdle ==
    /\ pm25Raw = Undefined
    /\ derived = Null
    /\ derivePc = "idle"

\* the variables of the classifiers before any render
ClassifyIdle ==
    /\ clsComponent = "map"
    /\ clsAqi = Null
    /\ clsColor = ""
    /\ clsLabel = ""
    /\ clsPc = "idle"

\* no response sent yet
NoResponse == [status |-> 0, error |-> "", body |-> <<>>]

NoDetailResponse == [status |-> 0, error |-> "", aqi |-> Null, pm25 |-> Null]

\* no feed call made yet; status becomes "threw", "notok", "unreadable" or
\* "ok"
NoFeed == [status |-> "none", aqi |-> Undefined, pm25 |-> Undefined]

\* no map bounds call made yet; status becomes "threw", "notok", "unreadable"
\* or "ok", and data holds the lat and lon of the stations of an "ok" answer
NoMain == [status |-> "none", data |-> <<>>]

\* REFRESH_INTERVAL_MS / 1000: the refresh period in countdown ticks
RefreshSeconds == 60

\* two entries of REGIONS by position: Mumbai (MMR) and Delhi NCR
RegionIds == {1, 2}

\* the region of useState('18.60,72.70,19.50,73.30'): Mumbai (MMR)
DefaultRegion == 1

\* the ids of the stations a user can pick
StationIds == {1, 2}

\* { center: region.center, zoom: region.zoom }
RegionView(r) == [t |-> "region", v |-> r]

\* { center: [station.lat, station.lng], zoom: 13 }
StationView(i) == [t |-> "stationview", v |-> i]

\* the station object with id i
Station(i) == [t |-> "station", v |-> i]

\* the body of a successful answer of /api/aqi for region r
StationsOf(r) == [t |-> "stations", v |-> r]

\* the body of a successful answer of /api/aqi/i
DetailOf(i) == [t |-> "detail", v |-> i]

\* new Date()
Date == [t |-> "date", v |-> 0]

\* err.message: 1 of a rejected fetch or an unparsable body, 2 of an answer
\* that is not ok (err.error or 'HTTP ' + status)
ErrMsg(k) == [t |-> "message", v |-> k]

FailureKinds == {1, 2}

\* no fetch in flight
NoFetch == [r \in RegionIds |-> 0]

NoDetailFetch == [i \in StationIds |-> 0]

\* the state of StationPanel's hooks at its first render
PanelIdle ==
    /\ detail = Null
    /\ panelLoading = FALSE
    /\ panelError = Null
    /\ visible = FALSE
    /\ detailInflight = NoDetailFetch
    /\ showTimers = 0
    /\ closeFresh = 0
    /\ closeStale = 0

\* the state of App's hooks at its first render, no effect run yet
ClientIdle ==
    /\ regionAware = TRUE
    /\ currentBounds = DefaultRegion
    /\ mapView = RegionView(DefaultRegion)
    /\ selectedStation = Null
    /\ aqiData = EmptyArray
    /\ loading = TRUE
    /\ error = Null
    /\ lastRefresh = Null
    /\ countdown = RefreshSeconds
    /\ intervalLeft = RefreshSeconds
    /\ sinceArmed = 0
    /\ inflight = NoFetch
    /\ PanelIdle

\* the variables of the proxy before any request
ProxyIdle ==
    /\ apiKey = "valid"
    /\ listPc = "idle"
    /\ listMain = NoMain
    /\ listCalls = 0
    /\ listSent = 0
    /\ stations = <<>>
    /\ listRes = NoResponse
    /\ detailPc = "idle"
    /\ detailFeed = NoFeed
    /\ detailCalls = 0
    /\ detailSent = 0
    /\ detailRes = NoDetailResponse

InitDerive ==
    /\ pm25Raw \in RawInputs
    /\ derived = Null
    /\ derivePc = "idle"
    /\ ClassifyIdle
    /\ ProxyIdle
    /\ ClientIdle

\* one call: derived = pm25ToAqi(pm25Raw)
CallPm25ToAqi ==
    /\ derivePc = "idle"
    /\ derived' = pm25ToAqi(pm25Raw)
    /\ derivePc' = "returned"
    /\ UNCHANGED <<pm25Raw, clsVars, proxyVars, clientVars>>

NextDerive == CallPm25ToAqi

SpecDerive == InitDerive /\ [][NextDerive]_vars

----------------------------------------------------------------------------
(* getAqiColor and getAqiLabel of the client components *)

\* the comparison written < instead of <=
AqiLt(aqi, k) ==
    CASE aqi.t = "number" -> aqi.v < k
      [] aqi.t = "infinity" -> aqi.v < 0
      [] aqi.t = "null" -> 0 < k
      [] OTHER -> FALSE

\* aqi <= k as JavaScript evaluates it: null counts as 0, undefined and NaN
\* compare false with every number
AqiLe(aqi, k) ==
    CASE aqi.t = "number" -> aqi.v <= k
      [] aqi.t = "infinity" -> aqi.v < 0
      [] aqi.t = "null" -> 0 <= k
      [] OTHER -> FALSE

\* the threshold scan shared by every copy of getAqiColor
ColorScan(aqi) ==
    IF AqiLe(aqi, 50) THEN "#22c55e"
    ELSE IF AqiLe(aqi, 100) THEN "#eab308"
    ELSE IF AqiLe(aqi, 150) THEN "#f97316"
    ELSE IF AqiLe(aqi, 200) THEN "#ef4444"
    ELSE IF AqiLe(aqi, 300) THEN "#a855f7"
    ELSE "#9f1239"

\* the threshold scan shared by every copy of getAqiLabel
LabelScan(aqi) ==
    IF AqiLe(aqi, 50) THEN "Good"
    ELSE IF AqiLe(aqi, 100) THEN "Moderate"
    ELSE IF AqiLe(aqi, 150) THEN "Unhealthy for Sensitive Groups"
    ELSE IF AqiLe(aqi, 200) THEN "Unhealthy"
    ELSE IF AqiLe(aqi, 300) THEN "Very Unhealthy"
    ELSE "Hazardous"

\* MapComponent: getAqiColor tests null and undefined, getAqiLabel null only
MapGetAqiColor(aqi) ==
    IF aqi = Null \/ aqi = Undefined THEN "#6b7280" ELSE ColorScan(aqi)

MapGetAqiLabel(aqi) ==
    IF aqi = Null THEN "No Data" ELSE LabelScan(aqi)

\* StationPanel: both test null and undefined
PanelGetAqiColor(aqi) ==
    IF aqi = Null \/ aqi = Undefined THEN "#6b7280" ELSE ColorScan(aqi)

PanelGetAqiLabel(aqi) ==
    IF aqi = Null \/ aqi = Undefined THEN "No Data" ELSE LabelScan(aqi)

\* the values an aqi field can hold when it is rendered
ClassInputs ==
    {Num(n) : n \in (0 - MinIdx) .. MaxIdx} \cup {Null, Undefined}

InitClassify ==
    /\ clsComponent \in {"map", "panel"}
    /\ clsAqi \in ClassInputs
    /\ clsColor = ""
    /\ clsLabel = ""
    /\ clsPc = "idle"
    /\ DeriveIdle
    /\ ProxyIdle
    /\ ClientIdle

\* MapComponent renders a marker and its popup
RenderMap ==
    /\ clsPc = "idle"
    /\ clsComponent = "map"
    /\ clsColor' = MapGetAqiColor(clsAqi)
    /\ clsLabel' = MapGetAqiLabel(clsAqi)
    /\ clsPc' = "rendered"
    /\ UNCHANGED <<clsComponent, clsAqi, deriveVars, proxyVars, clientVars>>

\* StationPanel renders its header
RenderPanel ==
    /\ clsPc = "idle"
    /\ clsComponent = "panel"
    /\ clsColor' = PanelGetAqiColor(clsAqi)
    /\ clsLabel' = PanelGetAqiLabel(clsAqi)
    /\ clsPc' = "rendered"
    /\ UNCHANGED <<clsComponent, clsAqi, deriveVars, proxyVars, clientVars>>

NextClassify == RenderMap \/ RenderPanel

SpecClassify == InitClassify /\ [][NextClassify]_vars

----------------------------------------------------------------------------
(* The proxy: GET /api/aqi and GET /api/aqi/:stationId *)

\* the server's getAqiColor: the threshold scan with no test for null
ServerGetAqiColor(aqi) == ColorScan(aqi)

\* parseInt(s.aqi, 10): the integer a number or a numeral starts with, NaN
\* for everything else
ParseInt(x) ==
    IF x.t \in {"number", "numstr"} THEN Num(x.v) ELSE NaN

\* typeof x === 'number'
IsNumber(x) == x.t \in {"number", "infinity", "nan"}

\* x ?? null
OrNull(x) == IF x = Undefined THEN Null ELSE x

\* the aqi field of a station of the map bounds API (index in units)
WireAqi == {Text, NumStr(42), NumStr(999), NumStr(-5)}

\* the truth value JavaScript gives x in s.lat && s.lon
Truthy(x) ==
    ~ \/ x.t \in {"undefined", "null", "nan", "emptystr"}
      \/ x.t = "number" /\ x.v = 0
      \/ x.t = "boolean" /\ x.v = FALSE

\* s.lat of a station of the map bounds API, in degrees: missing, on the
\* equator, or 19 degrees north
WireLat == {Undefined, Num(0), Num(19)}

\* s.lon, in degrees
WireLon == {Num(73)}

\* a station of the map bounds API
WireStations == [lat : WireLat, lon : WireLon, aqi : WireAqi]

\* the answers of the map bounds API: up to MaxStations stations, uid = place
WireData == UNION {[1 .. n -> WireStations] : n \in 0 .. MaxStations}

\* data.aqi and data.iaqi.pm25?.v of a station feed
FeedAqi == {Num(150), Num(999), Text, Word, Undefined}

FeedPm25 == {Undefined, Num(1210), Num(-500)}

FeedData == [aqi : FeedAqi, pm25 : FeedPm25]

\* the key test without its comparison with the placeholder
KeyMissingUnsetOnly == apiKey = "unset"

\* !apiKey || apiKey === 'your_api_key_here'
KeyMissing == apiKey \in {"unset", "placeholder"}

RECURSIVE SelectSeq2(_, _)
\* data.data.filter(s => s.lat && s.lon), each station keeping its uid
SelectSeq2(data, i) ==
    IF i > Len(data) THEN <<>>
    ELSE (IF Truthy(data[i].lat) /\ Truthy(data[i].lon)
          THEN <<[uid |-> i, aqi |-> data[i].aqi]>> ELSE <<>>)
             \o SelectSeq2(data, i + 1)

\* const rawAqi = parseInt(s.aqi, 10); let aqi = isNaN(rawAqi) ? null : rawAqi
StartStation(s) ==
    LET rawAqi == ParseInt(s.aqi)
        aqi == IF rawAqi = NaN THEN Null ELSE rawAqi
    IN  [uid |-> s.uid, wire |-> s.aqi, aqi |-> aqi,
         pending |-> (aqi = Null \/ aqi = NaN), feed |-> NoFeed]

\* what a feed with status 'ok' makes of the aqi of a station
EnrichedAqi(aqi, d) ==
    IF IsNumber(d.aqi) THEN d.aqi
    ELSE LET pm25 == OrNull(d.pm25)
             fromPm25 == pm25ToAqi(pm25)
         IN  IF fromPm25 # Null THEN fromPm25 ELSE aqi

\* the detail endpoint falling back to PM2.5 for every aqi that is no number
DetailAqiAnyNonNumber(d) ==
    IF IsNumber(d.aqi) THEN d.aqi ELSE pm25ToAqi(OrNull(d.pm25))

\* the aqi of the detail endpoint
DetailAqi(d) ==
    LET pm25 == OrNull(d.pm25)
        aqi == IF IsNumber(d.aqi) THEN d.aqi ELSE Null
    IN  IF aqi = Null /\ d.aqi \in {Text, Null, Undefined} /\ pm25 # Null
        THEN LET fromPm25 == pm25ToAqi(pm25)
             IN  IF fromPm25 # Null THEN fromPm25 ELSE aqi
        ELSE aqi

\* one entry of the answer of GET /api/aqi
StationEntry(st) ==
    [id |-> st.uid,
     aqi |-> st.aqi,
     color |-> IF st.aqi # Null THEN ServerGetAqiColor(st.aqi) ELSE "#6b7280"]

InitProxy ==
    /\ apiKey \in {"unset", "placeholder", "valid"}
    /\ listPc = "idle"
    /\ listMain = NoMain
    /\ listCalls = 0
    /\ listSent = 0
    /\ stations = <<>>
    /\ listRes = NoResponse
    /\ detailPc = "idle"
    /\ detailFeed = NoFeed
    /\ detailCalls = 0
    /\ detailSent = 0
    /\ detailRes = NoDetailResponse
    /\ DeriveIdle
    /\ ClassifyIdle
    /\ ClientIdle

\* GET /api/aqi arrives: 500 without a key, else the map bounds call
ListRequest ==
    /\ listPc = "idle"
    /\ IF KeyMissing
       THEN /\ listRes' = [status |-> 500, error |-> "WAQI_API_KEY is not set",
                           body |-> <<>>]
            /\ listSent' = listSent + 1
            /\ listCalls' = listCalls
            /\ listPc' = "responded"
       ELSE /\ listRes' = listRes
            /\ listSent' = listSent
            /\ listCalls' = listCalls + 1
            /\ listPc' = "fetching"
    /\ UNCHANGED <<apiKey, listMain, stations, detailVars, deriveVars, clsVars,
                   clientVars>>

\* fetch or response.json() of the map bounds call throws: the outer catch
ListMainThrows ==
    /\ listPc = "fetching"
    /\ listMain' = [NoMain EXCEPT !.status = "threw"]
    /\ listRes' = [status |-> 500, error |-> "Server error", body |-> <<>>]
    /\ listSent' = listSent + 1
    /\ listPc' = "responded"
    /\ UNCHANGED <<apiKey, listCalls, stations, detailVars, deriveVars, clsVars,
                   clientVars>>

\* data.status !== 'ok'
ListMainNotOk ==
    /\ listPc = "fetching"
    /\ listMain' = [NoMain EXCEPT !.status = "notok"]
    /\ listRes' = [status |-> 500, error |-> "WAQI API error", body |-> <<>>]
    /\ listSent' = listSent + 1
    /\ listPc' = "responded"
    /\ UNCHANGED <<apiKey, listCalls, stations, detailVars, deriveVars, clsVars,
                   clientVars>>

\* data.status === 'ok' but data.data is no array: data.data.filter throws,
\* the outer catch
ListMainUnreadable ==
    /\ listPc = "fetching"
    /\ listMain' = [NoMain EXCEPT !.status = "unreadable"]
    /\ listRes' = [status |-> 500, error |-> "Server error", body |-> <<>>]
    /\ listSent' = listSent + 1
    /\ listPc' = "responded"
    /\ UNCHANGED <<apiKey, listCalls, stations, detailVars, deriveVars, clsVars,
                   clientVars>>

\* data.status === 'ok': filter, then start the callback of every station;
\* a station with no usable aqi issues its feed call
ListMainOk(data) ==
    /\ listPc = "fetching"
    /\ listMain' = [status |-> "ok",
                    data |-> [i \in 1 .. Len(data) |->
                                 [lat |-> data[i].lat, lon |-> data[i].lon]]]
    /\ LET rawStations == SelectSeq2(data, 1)
           started == [i \in 1 .. Len(rawStations) |-> StartStation(rawStations[i])]
       IN  /\ stations' = started
           /\ listCalls' = listCalls
                  + Cardinality({i \in DOMAIN started : started[i].pending})
    /\ listPc' = "enriching"
    /\ UNCHANGED <<apiKey, listSent, listRes, detailVars, deriveVars, clsVars,
                   clientVars>>

\* the feed call of station i throws and the exception leaves the callback:
\* Promise.all rejects, the outer catch answers
EnrichThrowsUncaught(i) ==
    /\ listPc = "enriching"
    /\ stations[i].pending
    /\ stations' = [stations EXCEPT ![i].pending = FALSE,
                                    ![i].feed.status = "threw"]
    /\ listRes' = [status |-> 500, error |-> "Server error", body |-> <<>>]
    /\ listSent' = listSent + 1
    /\ listPc' = "responded"
    /\ UNCHANGED <<apiKey, listMain, listCalls, detailVars, deriveVars, clsVars,
                   clientVars>>

\* the feed call of station i throws: the inner catch, aqi stays null
EnrichThrows(i) ==
    /\ listPc = "enriching"
    /\ stations[i].pending
    /\ stations' = [stations EXCEPT ![i].pending = FALSE,
                                    ![i].feed.status = "threw"]
    /\ UNCHANGED <<apiKey, listPc, listMain, listCalls, listSent, listRes,
                   detailVars, deriveVars, clsVars, clientVars>>

\* the feed of station i has a status other than 'ok', or no data
EnrichNotOk(i) ==
    /\ listPc = "enriching"
    /\ stations[i].pending
    /\ stations' = [stations EXCEPT ![i].pending = FALSE,
                                    ![i].feed.status = "notok"]
    /\ UNCHANGED <<apiKey, listPc, listMain, listCalls, listSent, listRes,
                   detailVars, deriveVars, clsVars, clientVars>>

\* the feed of station i answers 'ok' with data d
EnrichOk(i, d) ==
    /\ listPc = "enriching"
    /\ stations[i].pending
    /\ stations' = [stations EXCEPT ![i].pending = FALSE,
                                    ![i].feed = [status |-> "ok", aqi |-> d.aqi,
                                                 pm25 |-> d.pm25],
                                    ![i].aqi = EnrichedAqi(stations[i].aqi, d)]
    /\ UNCHANGED <<apiKey, listPc, listMain, listCalls, listSent, listRes,
                   detailVars, deriveVars, clsVars, clientVars>>

\* Promise.all resolves: res.json(stations)
ListRespond ==
    /\ listPc = "enriching"
    /\ \A i \in DOMAIN stations : ~stations[i].pending
    /\ listRes' = [status |-> 200, error |-> "",
                   body |-> [i \in DOMAIN stations |-> StationEntry(stations[i])]]
    /\ listSent' = listSent + 1
    /\ listPc' = "responded"
    /\ UNCHANGED <<apiKey, listMain, listCalls, stations, detailVars, deriveVars,
                   clsVars, clientVars>>

\* the key test without its return: the handler answers 500 and goes on to
\* the feed call
DetailRequestNoReturn ==
    /\ detailPc = "idle"
    /\ IF KeyMissing
       THEN /\ detailRes' = [NoDetailResponse EXCEPT
                                !.status = 500, !.error = "WAQI_API_KEY is not set"]
            /\ detailSent' = detailSent + 1
       ELSE /\ detailRes' = detailRes
            /\ detailSent' = detailSent
    /\ detailCalls' = detailCalls + 1
    /\ detailPc' = "fetching"
    /\ UNCHANGED <<apiKey, detailFeed, listVars, deriveVars, clsVars, clientVars>>

\* GET /api/aqi/:stationId arrives: 500 without a key, else the feed call
DetailRequest ==
    /\ detailPc = "idle"
    /\ IF KeyMissing
       THEN /\ detailRes' = [NoDetailResponse EXCEPT
                                !.status = 500, !.error = "WAQI_API_KEY is not set"]
            /\ detailSent' = detailSent + 1
            /\ detailCalls' = detailCalls
            /\ detailPc' = "responded"
       ELSE /\ detailRes' = detailRes
            /\ detailSent' = detailSent
            /\ detailCalls' = detailCalls + 1
            /\ detailPc' = "fetching"
    /\ UNCHANGED <<apiKey, detailFeed, listVars, deriveVars, clsVars, clientVars>>

\* fetch or response.json() throws: the catch
DetailMainThrows ==
    /\ detailPc = "fetching"
    /\ detailFeed' = [NoFeed EXCEPT !.status = "threw"]
    /\ detailRes' = [NoDetailResponse EXCEPT !.status = 500, !.error = "Server error"]
    /\ detailSent' = detailSent + 1
    /\ detailPc' = "responded"
    /\ UNCHANGED <<apiKey, detailCalls, listVars, deriveVars, clsVars, clientVars>>

\* data.status !== 'ok'
DetailMainNotOk ==
    /\ detailPc = "fetching"
    /\ detailFeed' = [NoFeed EXCEPT !.status = "notok"]
    /\ detailRes' = [NoDetailResponse EXCEPT !.status = 500, !.error = "WAQI API error"]
    /\ detailSent' = detailSent + 1
    /\ detailPc' = "responded"
    /\ UNCHANGED <<apiKey, detailCalls, listVars, deriveVars, clsVars, clientVars>>

\* data.status === 'ok' but data.data is missing: d.iaqi throws, the catch
DetailMainUnreadable ==
    /\ detailPc = "fetching"
    /\ detailFeed' = [NoFeed EXCEPT !.status = "unreadable"]
    /\ detailRes' = [NoDetailResponse EXCEPT !.status = 500, !.error = "Server error"]
    /\ detailSent' = detailSent + 1
    /\ detailPc' = "responded"
    /\ UNCHANGED <<apiKey, detailCalls, listVars, deriveVars, clsVars, clientVars>>

\* data.status === 'ok' with data d: res.json({..., aqi, ..., pm25, ...})
DetailMainOk(d) ==
    /\ detailPc = "fetching"
    /\ detailFeed' = [status |-> "ok", aqi |-> d.aqi, pm25 |-> d.pm25]
    /\ detailRes' = [status |-> 200, error |-> "",
                     aqi |-> DetailAqi(d), pm25 |-> OrNull(d.pm25)]
    /\ detailSent' = detailSent + 1
    /\ detailPc' = "responded"
    /\ UNCHANGED <<apiKey, detailCalls, listVars, deriveVars, clsVars, clientVars>>

NextProxy ==
    \/ ListRequest
    \/ ListMainThrows
    \/ ListMainNotOk
    \/ ListMainUnreadable
    \/ listPc = "fetching" /\ \E data \in WireData : ListMainOk(data)
    \/ \E i \in DOMAIN stations : EnrichThrows(i)
    \/ \E i \in DOMAIN stations : EnrichNotOk(i)
    \/ \E i \in DOMAIN stations, d \in FeedData : EnrichOk(i, d)
    \/ ListRespond
    \/ DetailRequest
    \/ DetailMainThrows
    \/ DetailMainNotOk
    \/ DetailMainUnreadable
    \/ \E d \in FeedData : DetailMainOk(d)

SpecProxy == InitProxy /\ [][NextProxy]_vars

----------------------------------------------------------------------------
(* The App: fetchData, the refresh interval, the countdown, the regions *)

RECURSIVE SumOver(_, _)
\* the sum of f over the set S
SumOver(f, S) ==
    IF S = {} THEN 0
    ELSE LET x == CHOOSE y \in S : TRUE IN f[x] + SumOver(f, S \ {x})

\* the number of fetches of /api/aqi in flight
InflightTotal == SumOver(inflight, RegionIds)

\* fetchData() that returns at once while loading is set
CallFetchDataUnlessLoading ==
    IF loading THEN UNCHANGED <<loading, error, inflight>>
    ELSE /\ loading' = IF regionAware THEN TRUE ELSE loading
         /\ error' = Null
         /\ inflight' = [inflight EXCEPT ![currentBounds'] = @ + 1]

\* fetchData(), as the render that follows the step has it: setLoading(true)
\* in the region-aware App only, setError(null), then the fetch for
\* currentBounds
CallFetchData ==
    /\ loading' = IF regionAware THEN TRUE ELSE loading
    /\ error' = Null
    /\ inflight' = [inflight EXCEPT ![currentBounds'] = @ + 1]


\* setCountdown(prev => prev <= 1 ? REFRESH_INTERVAL_MS / 1000 : prev - 1)
NextCountdown(prev) == IF prev <= 1 THEN RefreshSeconds ELSE prev - 1

\* the state once App is mounted and its effects have run: the first fetch
\* is in flight, the refresh interval and the countdown tick are armed
InitApp ==
    /\ regionAware \in BOOLEAN
    /\ currentBounds = DefaultRegion
    /\ mapView = RegionView(DefaultRegion)
    /\ selectedStation = Null
    /\ aqiData = EmptyArray
    /\ loading = TRUE
    /\ error = Null
    /\ lastRefresh = Null
    /\ countdown = RefreshSeconds
    /\ intervalLeft = RefreshSeconds
    /\ sinceArmed = 0
    /\ inflight = [NoFetch EXCEPT ![DefaultRegion] = 1]
    /\ PanelIdle
    /\ DeriveIdle
    /\ ClassifyIdle
    /\ ProxyIdle

\* one second passes: the countdown tick fires, and the refresh interval
\* fires fetchData when its period has elapsed
Tick ==
    /\ intervalLeft = 1 => InflightTotal < MaxInFlight
    /\ countdown' = NextCountdown(countdown)
    /\ sinceArmed' = (sinceArmed + 1) % RefreshSeconds
    /\ IF intervalLeft = 1
       THEN /\ intervalLeft' = RefreshSeconds
            /\ currentBounds' = currentBounds
            /\ CallFetchData
       ELSE /\ intervalLeft' = intervalLeft - 1
            /\ UNCHANGED <<currentBounds, loading, error, inflight>>
    /\ UNCHANGED <<regionAware, mapView, selectedStation, aqiData, lastRefresh,
                   panelVars, deriveVars, clsVars, proxyVars>>

\* the refresh button: onRefresh={fetchData}
ManualRefresh ==
    /\ InflightTotal < MaxInFlight
    /\ currentBounds' = currentBounds
    /\ CallFetchData
    /\ UNCHANGED <<regionAware, mapView, selectedStation, aqiData, lastRefresh,
                   countdown, intervalLeft, sinceArmed,
                   panelVars, deriveVars, clsVars, proxyVars>>

\* handleRegionSelect(region); new bounds make a new fetchData, whose effects
\* call it and clear and re-arm the refresh interval
handleRegionSelect(r) ==
    /\ regionAware
    /\ selectedStation' = Null
    /\ mapView' = RegionView(r)
    /\ currentBounds' = r
    /\ IF r # currentBounds
       THEN /\ InflightTotal < MaxInFlight
            /\ CallFetchData
            /\ intervalLeft' = RefreshSeconds
            /\ sinceArmed' = 0
       ELSE UNCHANGED <<loading, error, inflight, intervalLeft, sinceArmed>>
    /\ UNCHANGED <<regionAware, aqiData, lastRefresh, countdown,
                   panelVars, deriveVars, clsVars, proxyVars>>

\* a fetch for region r resolves with an ok answer: the try block to its end,
\* then finally
FetchSucceeds(r) ==
    /\ inflight[r] > 0
    /\ inflight' = [inflight EXCEPT ![r] = @ - 1]
    /\ aqiData' = StationsOf(r)
    /\ lastRefresh' = Date
    /\ countdown' = RefreshSeconds
    /\ loading' = FALSE
    /\ UNCHANGED <<regionAware, currentBounds, mapView, selectedStation, error,
                   intervalLeft, sinceArmed,
                   panelVars, deriveVars, clsVars, proxyVars>>

\* a failed fetch that also empties aqiData
FetchFailsClearsData(r, k) ==
    /\ inflight[r] > 0
    /\ inflight' = [inflight EXCEPT ![r] = @ - 1]
    /\ error' = ErrMsg(k)
    /\ aqiData' = EmptyArray
    /\ loading' = FALSE
    /\ UNCHANGED <<regionAware, currentBounds, mapView, selectedStation,
                   lastRefresh, countdown, intervalLeft, sinceArmed,
                   panelVars, deriveVars, clsVars, proxyVars>>

\* a fetch for region r rejects, or its answer is not ok or cannot be
\* parsed: catch, then finally
FetchFails(r, k) ==
    /\ inflight[r] > 0
    /\ inflight' = [inflight EXCEPT ![r] = @ - 1]
    /\ error' = ErrMsg(k)
    /\ loading' = FALSE
    /\ UNCHANGED <<regionAware, currentBounds, mapView, selectedStation, aqiData,
                   lastRefresh, countdown, intervalLeft, sinceArmed,
                   panelVars, deriveVars, clsVars, proxyVars>>

NextApp ==
    \/ Tick
    \/ ManualRefresh
    \/ \E r \in RegionIds : handleRegionSelect(r)
    \/ \E r \in RegionIds : FetchSucceeds(r)
    \/ \E r \in RegionIds, k \in FailureKinds : FetchFails(r, k)

SpecApp == InitApp /\ [][NextApp]_vars

----------------------------------------------------------------------------
(* The station panel: selection, the detail fetch, the delayed close *)

\* the number of fetches of /api/aqi/:id in flight
DetailInflightTotal == SumOver(detailInflight, StationIds)

\* the App once its first fetch has answered, the panel not yet opened
InitPanel ==
    /\ regionAware = TRUE
    /\ currentBounds = DefaultRegion
    /\ mapView = RegionView(DefaultRegion)
    /\ selectedStation = Null
    /\ aqiData = StationsOf(DefaultRegion)
    /\ loading = FALSE
    /\ error = Null
    /\ lastRefresh = Date
    /\ countdown = RefreshSeconds
    /\ intervalLeft = RefreshSeconds
    /\ sinceArmed = 0
    /\ inflight = NoFetch
    /\ PanelIdle
    /\ DeriveIdle
    /\ ClassifyIdle
    /\ ProxyIdle

\* handleStationSelect(station) on a station of the map or the sidebar, and
\* the two effects of StationPanel when the station is another one: the
\* slide-in and the detail fetch.  A pending onClose timer now belongs to an
\* earlier selection.
handleStationSelect(i) ==
    /\ aqiData # EmptyArray
    /\ selectedStation' = Station(i)
    /\ mapView' = StationView(i)
    /\ closeFresh' = 0
    /\ closeStale' = closeStale + closeFresh
    /\ IF selectedStation # Station(i)
       THEN /\ showTimers < MaxTimers
            /\ DetailInflightTotal < MaxDetailInFlight
            /\ visible' = FALSE
            /\ showTimers' = showTimers + 1
            /\ panelLoading' = TRUE
            /\ detail' = Null
            /\ panelError' = Null
            /\ detailInflight' = [detailInflight EXCEPT ![i] = @ + 1]
       ELSE UNCHANGED <<visible, showTimers, panelLoading, detail, panelError,
                        detailInflight>>
    /\ UNCHANGED <<regionAware, currentBounds, aqiData, loading, error,
                   lastRefresh, countdown, intervalLeft, sinceArmed, inflight,
                   deriveVars, clsVars, proxyVars>>

\* setTimeout(() => setVisible(true), 30) fires
ShowTimerFires ==
    /\ showTimers > 0
    /\ showTimers' = showTimers - 1
    /\ visible' = TRUE
    /\ UNCHANGED <<detail, panelLoading, panelError, detailInflight,
                   closeFresh, closeStale, appVars, deriveVars, clsVars, proxyVars>>

\* the fetch of /api/aqi/i answers without an error field
DetailSucceeds(i) ==
    /\ detailInflight[i] > 0
    /\ detailInflight' = [detailInflight EXCEPT ![i] = @ - 1]
    /\ detail' = DetailOf(i)
    /\ panelLoading' = FALSE
    /\ UNCHANGED <<panelError, visible, showTimers, closeFresh, closeStale,
                   appVars, deriveVars, clsVars, proxyVars>>

\* the fetch of /api/aqi/i rejects, cannot be parsed, or has an error field
DetailFails(i, k) ==
    /\ detailInflight[i] > 0
    /\ detailInflight' = [detailInflight EXCEPT ![i] = @ - 1]
    /\ panelError' = ErrMsg(k)
    /\ panelLoading' = FALSE
    /\ UNCHANGED <<detail, visible, showTimers, closeFresh, closeStale,
                   appVars, deriveVars, clsVars, proxyVars>>

\* handleClose: the close button of the panel, shown while a station is
\* selected
handleClose ==
    /\ selectedStation # Null
    /\ closeFresh + closeStale < MaxTimers
    /\ visible' = FALSE
    /\ closeFresh' = closeFresh + 1
    /\ UNCHANGED <<detail, panelLoading, panelError, detailInflight, showTimers,
                   closeStale, appVars, deriveVars, clsVars, proxyVars>>

\* setTimeout(onClose, 300) fires: onClose is () => setSelectedStation(null).
\* stale tells whether a station was picked since the timer was set.
CloseTimerFires(stale) ==
    /\ IF stale
       THEN closeStale > 0 /\ closeStale' = closeStale - 1 /\ closeFresh' = closeFresh
       ELSE closeFresh > 0 /\ closeFresh' = closeFresh - 1 /\ closeStale' = closeStale
    /\ selectedStation' = Null
    /\ UNCHANGED <<regionAware, currentBounds, mapView, aqiData, loading, error,
                   lastRefresh, countdown, intervalLeft, sinceArmed, inflight,
                   detail, panelLoading, panelError, visible, detailInflight,
                   showTimers, deriveVars, clsVars, proxyVars>>

NextPanel ==
    \/ \E i \in StationIds : handleStationSelect(i)
    \/ ShowTimerFires
    \/ \E i \in StationIds : DetailSucceeds(i)
    \/ \E i \in StationIds, k \in FailureKinds : DetailFails(i, k)
    \/ handleClose
    \/ \E stale \in BOOLEAN : CloseTimerFires(stale)
    \/ \E r \in RegionIds : handleRegionSelect(r)
    \/ \E r \in RegionIds : FetchSucceeds(r)
    \/ \E r \in RegionIds, k \in FailureKinds : FetchFails(r, k)

SpecPanel == InitPanel /\ [][NextPanel]_vars

----------------------------------------------------------------------------
(* Properties of the derivation, checked under SpecDerive *)

\* the breakpoint table as published: concentration band (hundredths of a
\* ug/m3) and index range
SpecBands ==
    { [cLo |-> 0, cHi |-> 1200, iLo |-> 0, iHi |-> 50],
      [cLo |-> 1210, cHi |-> 3540, iLo |-> 51, iHi |-> 100],
      [cLo |-> 3550, cHi |-> 5540, iLo |-> 101, iHi |-> 150],
      [cLo |-> 5550, cHi |-> 15040, iLo |-> 151, iHi |-> 200],
      [cLo |-> 15050, cHi |-> 25040, iLo |-> 201, iHi |-> 300],
      [cLo |-> 25050, cHi |-> 50040, iLo |-> 301, iHi |-> 500] }

Abs(n) == IF n < 0 THEN 0 - n ELSE n

\* the call returned for a finite numeric argument
ReturnedForNumber == derivePc = "returned" /\ pm25Raw.t = "number"

\* C1: a concentration inside one of the six bands yields an index inside
\* that band's index range, both ends included.
C1_IndexInBandRange ==
    ReturnedForNumber =>
        \A b \in SpecBands :
            b.cLo <= pm25Raw.v /\ pm25Raw.v <= b.cHi =>
                /\ derived.t = "number"
                /\ b.iLo <= derived.v /\ derived.v <= b.iHi

\* 35.4 ug/m3, the top of the second band, gave 100
C1_Witness ==
    derivePc = "returned" /\ pm25Raw = Num(3540) /\ derived = Num(100)

\* C2: for a concentration in [0, 500.4] the result is the integer nearest
\* to (iHi - iLo) / (cHi - cLo) * (c - cLo) + iLo of the band containing c
\* (at most 1/2 away from it).
C2_NearestToInterpolation ==
    ReturnedForNumber =>
        \A b \in SpecBands :
            b.cLo <= pm25Raw.v /\ pm25Raw.v <= b.cHi =>
                /\ derived.t = "number"
                /\ 2 * Abs((b.iHi - b.iLo) * (pm25Raw.v - b.cLo)
                            - (derived.v - b.iLo) * (b.cHi - b.cLo))
                       <= b.cHi - b.cLo

\* 0.6 ug/m3 interpolates to exactly 2.5 and gave 3
C2_Witness ==
    derivePc = "returned" /\ pm25Raw = Num(60) /\ derived = Num(3)

\* C3: 12.0 yields 50, 12.1 yields 51, 35.4 yields 100, 500.4 yields 500 and
\* 600 yields 500.
C3_BoundaryExactness ==
    derivePc = "returned" =>
        /\ pm25Raw = Num(1200) => derived = Num(50)
        /\ pm25Raw = Num(1210) => derived = Num(51)
        /\ pm25Raw = Num(3540) => derived = Num(100)
        /\ pm25Raw = Num(50040) => derived = Num(500)
        /\ pm25Raw = Num(60000) => derived = Num(500)

\* 12.1 ug/m3, the bottom of the second band, gave 51
C3_Witness ==
    derivePc = "returned" /\ pm25Raw = Num(1210) /\ derived = Num(51)

\* the index derived at every tenth of a ug/m3 of the grid, tabulated:
\* entry i is for the concentration 10 * (i - 1 - MinNeg) hundredths
AqiAtTenth ==
    [i \in 1 .. (MinNeg + MaxConc + 1) |->
        pm25ToAqi(Num(10 * (i - 1 - MinNeg))).v] \o <<>>

\* C4: monotone non-decreasing: every concentration of the grid larger than
\* the argument (in a band, between two bands, negative or above 500.4),
\* and Infinity, yields an index that is not smaller.
C4_Monotone ==
    ReturnedForNumber =>
        /\ derived.t = "number"
        /\ derived.v <= pm25ToAqi(Infinity(1)).v
        /\ \A i \in 1 .. (MinNeg + MaxConc + 1) :
               pm25Raw.v < 10 * (i - 1 - MinNeg) => derived.v <= AqiAtTenth[i]
        /\ \A c2 \in GapConcs \cup FarConcs :
               pm25Raw.v < c2 => derived.v <= pm25ToAqi(Num(c2)).v

\* 12.05 ug/m3, between the first two bands, gave 51
C4_Witness ==
    derivePc = "returned" /\ pm25Raw = Num(1205) /\ derived = Num(51)

\* C5: an absent (undefined) or null argument, or one that Number() turns
\* into NaN, yields null.
C5_AbsentYieldsNull ==
    derivePc = "returned"
        /\ (pm25Raw \in {Undefined, Null} \/ ToNumber(pm25Raw) = NaN)
        => derived = Null

\* the string "-" gave null
C5_Witness ==
    derivePc = "returned" /\ pm25Raw = Text /\ derived = Null

\* the argument reads as a non-negative real number
ParseableNonNegative(x) == x.t \in {"number", "numstr"} /\ x.v >= 0

\* C6: every argument that is not parseable as a non-negative real number,
\* a negative concentration included, yields null.
C6_NullUnlessNonNegative ==
    derivePc = "returned" /\ ~ParseableNonNegative(pm25Raw) => derived = Null

\* C7: every concentration above 500.4 yields exactly 500.
C7_ClampedTo500 ==
    derivePc = "returned" =>
        LET pm25 == ToNumber(pm25Raw)
        IN  (pm25.t = "number" /\ pm25.v > 50040) \/ pm25 = Infinity(1)
                => derived = Num(500)

\* 510.0 ug/m3 gave 500
C7_Witness ==
    derivePc = "returned" /\ pm25Raw = Num(51000) /\ derived = Num(500)

----------------------------------------------------------------------------
(* Properties of the classifiers, checked under SpecClassify *)

\* the six severity categories with their inclusive index bands
SpecCategories ==
    { [lo |-> 0, hi |-> 50, label |-> "Good"],
      [lo |-> 51, hi |-> 100, label |-> "Moderate"],
      [lo |-> 101, hi |-> 150, label |-> "Unhealthy for Sensitive Groups"],
      [lo |-> 151, hi |-> 200, label |-> "Unhealthy"],
      [lo |-> 201, hi |-> 300, label |-> "Very Unhealthy"],
      [lo |-> 301, hi |-> 500, label |-> "Hazardous"] }

\* C9: for an integer index in [0, 500] getAqiLabel returns one of the six
\* categories, and it is the category of a band exactly when that band
\* holds the index: one band and only one holds each index.
C9_ClassificationTotal ==
    clsPc = "rendered" /\ clsAqi.t = "number"
        /\ 0 <= clsAqi.v /\ clsAqi.v <= 500
        => /\ clsLabel \in {b.label : b \in SpecCategories}
           /\ \A b \in SpecCategories :
                  (b.lo <= clsAqi.v /\ clsAqi.v <= b.hi) <=> clsLabel = b.label

\* the map labelled index 300 Very Unhealthy
C9_Witness ==
    /\ clsPc = "rendered"
    /\ clsComponent = "map"
    /\ clsAqi = Num(300)
    /\ clsLabel = "Very Unhealthy"

\* the colour of each category and of No Data
SpecPalette ==
    { <<"#22c55e", "Good">>,
      <<"#eab308", "Moderate">>,
      <<"#f97316", "Unhealthy for Sensitive Groups">>,
      <<"#ef4444", "Unhealthy">>,
      <<"#a855f7", "Very Unhealthy">>,
      <<"#9f1239", "Hazardous">>,
      <<"#6b7280", "No Data">> }

\* C10: in each component, for every index and for null and undefined, the
\* colour and the label belong to the same band.
C10_ColorAndLabelAgree ==
    clsPc = "rendered" => <<clsColor, clsLabel>> \in SpecPalette

\* null and undefined, the two forms of "no value" a component can be handed
NoValue(aqi) == aqi = Null \/ aqi = Undefined

\* C11: a component returns the label No Data and the colour #6b7280 exactly
\* when the aqi it is handed is no value: never a severity category for no
\* value, never No Data for a number.
C11_NoDataExactlyForNoValue ==
    clsPc = "rendered"
        => /\ clsLabel = "No Data" <=> NoValue(clsAqi)
           /\ clsColor = "#6b7280" <=> NoValue(clsAqi)

----------------------------------------------------------------------------
(* Properties of the proxy, checked under SpecProxy *)

\* the absence marker or an integer of [0, 500]
IsIndexOrAbsent(aqi) ==
    aqi = Null \/ (aqi.t = "number" /\ 0 <= aqi.v /\ aqi.v <= 500)

\* C8: every aqi the proxy puts in a response of GET /api/aqi or of
\* GET /api/aqi/:stationId is null or an integer of [0, 500], taken from
\* upstream or derived from PM2.5.
C8_ServedAqiInRange ==
    /\ \A i \in DOMAIN listRes.body : IsIndexOrAbsent(listRes.body[i].aqi)
    /\ detailRes.status = 200 => IsIndexOrAbsent(detailRes.aqi)

\* the aqi GET /api/aqi serves for a station: the integer parseInt reads from
\* the map payload when there is one; else the aqi of an 'ok' feed when its
\* type is number; else pm25ToAqi of the PM2.5 reading of that feed, and
\* null when the feed call failed
ListSourcePreference ==
    \A i \in DOMAIN listRes.body :
        LET st == stations[i]
            served == listRes.body[i].aqi
        IN  IF ParseInt(st.wire) # NaN THEN served = ParseInt(st.wire)
            ELSE IF st.feed.status # "ok" THEN served = Null
            ELSE IF IsNumber(st.feed.aqi) THEN served = st.feed.aqi
            ELSE served = pm25ToAqi(OrNull(st.feed.pm25))

----------------------------------------------------------------------------
(* Properties of the App, checked under SpecApp *)

\* C13: the second that passes issues an automatic fetch exactly when it is
\* the 60th since the refresh interval was armed or a multiple of it,
\* whatever earlier fetches did, whatever is in flight, whatever the user
\* refreshed by hand.
C13_AutoRefreshEvery60s ==
    [][Tick => (InflightTotal' = InflightTotal + 1 <=> sinceArmed' = 0)]_vars

\* the first App, 60 s after mount: the first fetch answered at 10 s, a manual
\* refresh is still in flight, and the interval has issued one more fetch
C13_Witness ==
    /\ ~regionAware
    /\ sinceArmed = 0
    /\ countdown = 10
    /\ lastRefresh = Date
    /\ InflightTotal = 2

\* C14: the countdown shown, "Refresh in Ns", is the number of seconds left
\* before the refresh interval issues the next automatic fetch.
C14_CountdownIsTimeToRefresh ==
    ~loading /\ error = Null => countdown = intervalLeft

\* C16: in the region-aware App, once no fetch is in flight and the latest
\* fetchData met no failure, aqiData is the answer for currentBounds.
C16_RegionDataConsistency ==
    regionAware /\ InflightTotal = 0 /\ error = Null
        => aqiData = StationsOf(currentBounds)

\* C17: in the region-aware App, loading is true exactly while a fetch of
\* fetchData is in flight.
C17_LoadingWhileInFlight ==
    regionAware => (loading <=> InflightTotal > 0)

\* C18: a fetch that fails sets error to its message and leaves aqiData,
\* lastRefresh and countdown as they were; loading is false once a fetch has
\* settled, failed or not.
C18_FailedRefreshKeepsData ==
    [][/\ \A r \in RegionIds, k \in FailureKinds :
              FetchFails(r, k) => /\ error' = ErrMsg(k)
                                  /\ aqiData' = aqiData
                                  /\ lastRefresh' = lastRefresh
                                  /\ countdown' = countdown
                                  /\ loading' = FALSE
       /\ \A r \in RegionIds : FetchSucceeds(r) => loading' = FALSE]_vars

\* a refresh failed two seconds after a success: the stations, the date and
\* the countdown of that success are still there, next to the message
C18_Witness ==
    /\ error = ErrMsg(2)
    /\ aqiData = StationsOf(DefaultRegion)
    /\ lastRefresh = Date
    /\ countdown = 58
    /\ ~loading
    /\ InflightTotal = 0

----------------------------------------------------------------------------
(* Properties of the station panel, checked under SpecPanel *)

\* C19: while a station is selected, a detail that is not null is the answer
\* of /api/aqi/<id> for the id of that station.
C19_DetailOfSelectedStation ==
    selectedStation # Null /\ detail # Null
        => detail = DetailOf(selectedStation.v)

\* C20: a selected station is deselected only by a region switch or by the
\* onClose timer of a close click made since the station was picked.
C20_SelectionStays ==
    [][selectedStation # Null /\ selectedStation' = Null
           => \/ \E r \in RegionIds : handleRegionSelect(r)
              \/ closeFresh' < closeFresh]_vars

\* the colour the proxy gives an aqi it serves
SpecColorOf(aqi) ==
    IF aqi = Null THEN "#6b7280"
    ELSE IF aqi.v <= 50 THEN "#22c55e"
    ELSE IF aqi.v <= 100 THEN "#eab308"
    ELSE IF aqi.v <= 150 THEN "#f97316"
    ELSE IF aqi.v <= 200 THEN "#ef4444"
    ELSE IF aqi.v <= 300 THEN "#a855f7"
    ELSE "#9f1239"

\* the aqi of a station whose own feed call is left out of account: what its
\* map payload and its own feed make of it
OwnAqi(st) ==
    IF ParseInt(st.wire) # NaN THEN ParseInt(st.wire)
    ELSE IF st.feed.status # "ok" THEN Null
    ELSE IF IsNumber(st.feed.aqi) THEN st.feed.aqi
    ELSE pm25ToAqi(OrNull(st.feed.pm25))

\* some feed call of GET /api/aqi threw or had a status other than 'ok'
SomeFeedFailed ==
    \E i \in DOMAIN stations : stations[i].feed.status \in {"threw", "notok"}

\* C21: when the feed call of a station throws or has a status other than
\* 'ok', GET /api/aqi still answers 200, that station is in the list with
\* aqi null and colour #6b7280, and every other station has the aqi and the
\* colour its own payload and feed give it.
C21_EnrichmentFailureIsolated ==
    listPc = "responded" /\ SomeFeedFailed
        => /\ listRes.status = 200
           /\ DOMAIN listRes.body = DOMAIN stations
           /\ \A i \in DOMAIN stations :
                  /\ listRes.body[i].id = stations[i].uid
                  /\ IF stations[i].feed.status \in {"threw", "notok"}
                     THEN /\ listRes.body[i].aqi = Null
                          /\ listRes.body[i].color = "#6b7280"
                     ELSE /\ listRes.body[i].aqi = OwnAqi(stations[i])
                          /\ listRes.body[i].color = SpecColorOf(OwnAqi(stations[i]))

\* the feed of the first station threw, the feed of the second gave a PM2.5
\* reading of 12.1: the answer is 200 with aqi null, then aqi 51 in yellow
C21_Witness ==
    /\ listPc = "responded"
    /\ listRes.status = 200
    /\ Len(stations) = 2
    /\ stations[1].feed.status = "threw"
    /\ stations[2].feed = [status |-> "ok", aqi |-> Text, pm25 |-> Num(1210)]
    /\ listRes.body[1].aqi = Null
    /\ listRes.body[1].color = "#6b7280"
    /\ listRes.body[2].aqi = Num(51)
    /\ listRes.body[2].color = "#eab308"

\* an upstream station that has coordinates: a latitude and a longitude
HasCoordinates(w) == w.lat.t = "number" /\ w.lon.t = "number"

RECURSIVE PlacesWithCoordinates(_, _)
\* the places, in upstream order from place i on, of the stations of data
\* that have coordinates
PlacesWithCoordinates(data, i) ==
    IF i > Len(data) THEN <<>>
    ELSE (IF HasCoordinates(data[i]) THEN <<i>> ELSE <<>>)
             \o PlacesWithCoordinates(data, i + 1)

\* C22: the answer of GET /api/aqi has one entry for each upstream station
\* that has coordinates and no other, in the upstream order, and each entry
\* is what the station's own payload and feed make it, whatever the order
\* in which the feed calls completed.
C22_OneEntryPerStation ==
    listRes.status = 200
        => /\ [j \in DOMAIN listRes.body |-> listRes.body[j].id]
                  = PlacesWithCoordinates(listMain.data, 1)
           /\ \A j \in DOMAIN listRes.body :
                  /\ listRes.body[j].aqi = OwnAqi(stations[j])
                  /\ listRes.body[j].color = SpecColorOf(OwnAqi(stations[j]))

\* C23: with WAQI_API_KEY unset or equal to the placeholder, neither endpoint
\* issues a request to the upstream provider, and each answers a request
\* with HTTP 500 and an error, at once.
C23_NoKeyNoUpstreamCall ==
    apiKey \in {"unset", "placeholder"}
        => /\ listCalls = 0
           /\ detailCalls = 0
           /\ listPc \in {"idle", "responded"}
           /\ detailPc \in {"idle", "responded"}
           /\ listPc = "responded"
                  => /\ listRes.status = 500
                     /\ listRes.error # ""
                     /\ listRes.body = <<>>
           /\ detailPc = "responded"
                  => /\ detailRes.status = 500
                     /\ detailRes.error # ""

\* with the placeholder as key both endpoints have answered 500
C23_Witness ==
    /\ apiKey = "placeholder"
    /\ listPc = "responded"
    /\ listRes.status = 500
    /\ detailPc = "responded"
    /\ detailRes.status = 500
    /\ listCalls = 0
    /\ detailCalls = 0

\* one response and no more for a request of an endpoint: sent counts the
\* responses, pc is the handler's place, calls its upstream requests, main
\* the status of its main upstream call, res its response; failures are the
\* statuses of the main call that make the response a 500
OneResponse(sent, pc, calls, main, res, failures) ==
    /\ sent <= 1
    /\ sent = 1 <=> pc = "responded"
    /\ pc = "responded" /\ calls > 0
           => IF main \in failures
              THEN res.status = 500 /\ res.error # ""
              ELSE res.status = 200 /\ res.error = ""

\* an error response carries no station data
NoDataWithError ==
    /\ listRes.status = 500 => listRes.body = <<>>
    /\ detailRes.status = 500 => detailRes.aqi = Null /\ detailRes.pm25 = Null

====
